---- MODULE Spec2Model ----
(***************************************************************************)
(* Model of package runt: the test context T (logging, Fail/FailNow,       *)
(* SkipNow, subtests through T.Run) and the top-level Run.                 *)
(*                                                                         *)
(* Text is a sequence of tokens; the token NL is the newline character.    *)
(* A *T is an index into ctxs; the nil parent is 0.  The Go call stack is  *)
(* the sequence of contexts whose callbacks are running, innermost last.   *)
(* A panic is a phase of the machine: the value travels to the deferred    *)
(* recover of the innermost Run / T.Run, which is the next step.           *)
(***************************************************************************)
EXTENDS Integers, Sequences, FiniteSets, TLC

\* Bounds of the exploration.
MaxCtx == 3
MaxOps == 2

VARIABLES
    ctxs,      \* the heap of T values: Seq of [name, parent, logs, failed, skipped]
    stack,     \* contexts owned by the running callbacks, innermost last
    phase,     \* "idle" | "running" | "panicking" | "done" | "crashed" (a panic left Run)
    panicVal,  \* the value passed to panic() while phase = "panicking"
    err,       \* the error returned by Run
    frames,    \* history: per context, how its callback ended, what the call that
               \* ended it left behind, and what Run / T.Run then returned
    calls,     \* history: per context, the text of each logging call made on it
    lastOp,    \* history: the operation of the last step
    nops       \* number of callback operations so far

vars == <<ctxs, stack, phase, panicVal, err, frames, calls, lastOp, nops>>

----------------------------------------------------------------------------
\* Values and text

NL == "\n"

StringV(s) == [kind |-> "string", text |-> <<s>>]
IntV(s) == [kind |-> "int", text |-> <<s>>]
ErrorV(s) == [kind |-> "error", text |-> <<s>>]
BytesV(s) == [kind |-> "bytes", text |-> <<s>>]
TextV(t) == [kind |-> "string", text |-> t]

\* the zero value of interface{}: what recover() yields when nothing panicked
Nil == [kind |-> "nil", text |-> <<"<nil>">>]
testFailed == [kind |-> "testFailed", text |-> <<"{}">>]
testSkipped == [kind |-> "testSkipped", text |-> <<"{}">>]

\* the nil error
NilErr == [isNil |-> TRUE, msg |-> <<>>]

\* %v of a value; a verb that does not fit the operand prints fmt's bad-verb form
FormatVerb(verb, v) ==
    IF \/ verb = "%v"
       \/ verb = "%s" /\ v.kind \in {"string", "error"}
       \/ verb = "%d" /\ v.kind = "int"
    THEN v.text
    ELSE <<"%!", verb, "(", v.kind, "=">> \o v.text \o <<")">>

IsVerb(tok) == tok \in {"%v", "%s", "%d"}

RECURSIVE Sprintf(_, _)
Sprintf(format, args) ==
    IF format = <<>> THEN <<>>
    ELSE IF IsVerb(Head(format))
         THEN IF args = <<>>
              THEN <<"%!", Head(format), "(MISSING)">> \o Sprintf(Tail(format), args)
              ELSE FormatVerb(Head(format), Head(args)) \o Sprintf(Tail(format), Tail(args))
         ELSE <<Head(format)>> \o Sprintf(Tail(format), args)

RECURSIVE SprintOperands(_)
SprintOperands(args) ==
    IF args = <<>> THEN <<>>
    ELSE IF Len(args) = 1 THEN Head(args).text
    ELSE Head(args).text \o <<" ">> \o SprintOperands(Tail(args))

\* fmt.Fprintln: operands separated by spaces, newline appended
Sprintln(args) == SprintOperands(args) \o <<NL>>

----------------------------------------------------------------------------
\* The T type and its methods, as functions of the heap cs

New(name) ==
    [name |-> name, parent |-> 0, logs |-> <<>>, failed |-> FALSE, skipped |-> FALSE]

Logs(cs, e) == cs[e].logs
Failed(cs, e) == cs[e].failed
Skipped(cs, e) == cs[e].skipped

\* Log writing the line to the parent's log as well
LogAlsoParent(cs, e, args) ==
    [c \in DOMAIN cs |->
        IF c = e \/ c = cs[e].parent
        THEN [cs[c] EXCEPT !.logs = @ \o Sprintln(args)]
        ELSE cs[c]]

\* Log writing before what is already there
LogPrepend(cs, e, args) == [cs EXCEPT ![e].logs = Sprintln(args) \o @]

Log(cs, e, args) == [cs EXCEPT ![e].logs = @ \o Sprintln(args)]

Logf(cs, e, format, args) == [cs EXCEPT ![e].logs = @ \o Sprintf(format \o <<NL>>, args)]

\* Fail on one flag shared by all the contexts
FailAll(cs, e) == [c \in DOMAIN cs |-> [cs[c] EXCEPT !.failed = TRUE]]

\* Fail without the walk up the parent chain
FailLocal(cs, e) == [cs EXCEPT ![e].failed = TRUE]

RECURSIVE Fail(_, _)
Fail(cs, e) ==
    LET up == IF cs[e].parent # 0 THEN Fail(cs, cs[e].parent) ELSE cs
    IN  [up EXCEPT ![e].failed = TRUE]

Error(cs, e, args) == Fail(Log(cs, e, args), e)

Errorf(cs, e, format, args) == Fail(Logf(cs, e, format, args), e)

\* FailNow without the panic
FailNowReturns(cs, e) == [ctxs |-> [cs EXCEPT ![e].failed = TRUE], panic |-> Nil]

\* A method that may panic yields the heap and the panic value (Nil: it returned).
FailNow(cs, e) == [ctxs |-> [cs EXCEPT ![e].failed = TRUE], panic |-> testFailed]

Fatal(cs, e, args) == FailNow(Log(cs, e, args), e)

Fatalf(cs, e, format, args) == FailNow(Logf(cs, e, format, args), e)

\* SkipNow counting the skip as a failure
SkipNowFails(cs, e) ==
    [ctxs |-> Fail([cs EXCEPT ![e].skipped = TRUE], e), panic |-> testSkipped]

\* SkipNow taking back a failure recorded before
SkipNowClearsFailed(cs, e) ==
    [ctxs |-> [cs EXCEPT ![e].skipped = TRUE, ![e].failed = FALSE],
     panic |-> testSkipped]

\* SkipNow marking the parent as skipped too
SkipNowUpward(cs, e) ==
    [ctxs |-> [c \in DOMAIN cs |->
                  IF c = e \/ c = cs[e].parent THEN [cs[c] EXCEPT !.skipped = TRUE]
                  ELSE cs[c]],
     panic |-> testSkipped]

SkipNow(cs, e) == [ctxs |-> [cs EXCEPT ![e].skipped = TRUE], panic |-> testSkipped]

Skip(cs, e, args) == SkipNow(Log(cs, e, args), e)

Skipf(cs, e, format, args) == SkipNow(Logf(cs, e, format, args), e)

----------------------------------------------------------------------------
\* The interception boundaries

\* runtime/debug.Stack(): a []byte, which Fprintln prints as a list of numbers
debugStack == BytesV("[103 111 114 ...]")

\* T.Run's deferred func failing the subtest when it takes the failure marker
TRunDeferredMarkerFails(cs, sub, x) ==
    IF x = Nil THEN cs
    ELSE IF x = testSkipped THEN cs
    ELSE IF x = testFailed THEN Fail(cs, sub)
    ELSE Error(Errorf(cs, sub, <<"PANIC: ", "%v">>, <<x>>), sub, <<debugStack>>)

\* the deferred func of T.Run, given what recover() returned
TRunDeferred(cs, sub, x) ==
    IF x = Nil THEN cs
    ELSE IF x = testSkipped \/ x = testFailed THEN cs
    ELSE Error(Errorf(cs, sub, <<"PANIC: ", "%v">>, <<x>>), sub, <<debugStack>>)

\* T.Run reporting a skipped subtest like one that returned
TRunExitSkipPasses(cs, sub, x) ==
    [ctxs |-> TRunDeferred(cs, sub, x),
     ret  |-> IF x \in {Nil, testSkipped} THEN ~Failed(cs, sub) ELSE FALSE,
     panic |-> Nil]

\* T.Run with the result computed after the recover, as a named result would be
TRunExitRecomputed(cs, sub, x) ==
    [ctxs |-> TRunDeferred(cs, sub, x),
     ret  |-> ~Failed(TRunDeferred(cs, sub, x), sub),
     panic |-> Nil]

\* T.Run recovering the two markers only: any other value goes on unwinding
TRunExitMarkersOnly(cs, sub, x) ==
    [ctxs |-> IF x \in {Nil, testSkipped, testFailed} THEN cs ELSE Fail(cs, sub),
     ret  |-> IF x = Nil THEN ~Failed(cs, sub) ELSE FALSE,
     panic |-> IF x \in {Nil, testSkipped, testFailed} THEN Nil ELSE x]

\* T.Run once cb(sub) is over: `return !sub.Failed()` is reached only when cb
\* returned; after a recovered panic the unnamed result keeps its zero value.
\* The deferred func calls recover() first and without condition, so whatever
\* cb panicked with stops here: no panic is left (panic is Nil).
TRunExit(cs, sub, x) ==
    [ctxs |-> TRunDeferred(cs, sub, x),
     ret  |-> IF x = Nil THEN ~Failed(cs, sub) ELSE FALSE,
     panic |-> Nil]

\* Run's deferred func dropping every recovered value
RunDeferredSilent(cs, t, x) == cs

\* Run's deferred func taking the failure marker for a failure
RunDeferredMarkerFails(cs, t, x) ==
    IF x = Nil THEN cs
    ELSE IF x = testSkipped THEN cs
    ELSE IF x = testFailed THEN Fail(cs, t)
    ELSE Errorf(cs, t, <<"PANIC: ", "%v">>, <<x>>)

\* the deferred func of Run
RunDeferred(cs, t, x) ==
    IF x = Nil THEN cs
    ELSE IF x = testSkipped \/ x = testFailed THEN cs
    ELSE Errorf(cs, t, <<"PANIC: ", "%v">>, <<x>>)

FmtErrorf(format, args) == [isNil |-> FALSE, msg |-> Sprintf(format, args)]

\* Run taking a skipped root for a success, failed or not
RunResultSkipWins(cs, t) ==
    IF Failed(cs, t) /\ ~Skipped(cs, t)
    THEN FmtErrorf(<<"test failed:", NL, "%s">>, <<TextV(Logs(cs, t))>>)
    ELSE NilErr

\* Run reporting a skipped root as an error too
RunResultSkipIsError(cs, t) ==
    IF Failed(cs, t) \/ Skipped(cs, t)
    THEN FmtErrorf(<<"test failed:", NL, "%s">>, <<TextV(Logs(cs, t))>>)
    ELSE NilErr

\* what Run returns for the root t
RunResult(cs, t) ==
    IF Failed(cs, t)
    THEN FmtErrorf(<<"test failed:", NL, "%s">>, <<TextV(Logs(cs, t))>>)
    ELSE NilErr

\* Run recovering the two markers only: any other value leaves Run as a panic
RunExitMarkersOnly(cs, t, x) ==
    IF x \in {Nil, testSkipped, testFailed}
    THEN [ctxs |-> cs, err |-> RunResult(cs, t), panic |-> Nil]
    ELSE [ctxs |-> Fail(cs, t), err |-> NilErr, panic |-> x]

\* Run once cb(t) is over; recover() is unconditional here too.
RunExit(cs, t, x) ==
    LET after == RunDeferred(cs, t, x)
    IN  [ctxs |-> after, err |-> RunResult(after, t), panic |-> Nil]

----------------------------------------------------------------------------
\* Inputs of the callbacks

LogArgs == {<<StringV("after"), IntV("42")>>}
FailArgs == {<<StringV("boom")>>}
SkipArgs == {<<StringV("not here")>>}
Formats == {[format |-> <<"Value: ", "%d">>, args |-> <<IntV("123")>>]}
PanicValues == {testFailed, testSkipped, StringV("oops"), ErrorV("test error")}

----------------------------------------------------------------------------
\* The machine

Top == stack[Len(stack)]
Active == {stack[i] : i \in 1..Len(stack)}
Returned(cs) == [ctxs |-> cs, panic |-> Nil]
NewFrame ==
    [how |-> "running", on |-> 0, val |-> Nil, snap |-> <<>>, failedAt |-> FALSE,
     exited |-> FALSE, ret |-> FALSE, soft |-> FALSE]

\* the calls that mark a failure and return
SoftOps == {"Fail", "Error", "Errorf"}

\* the calls that are meant not to return
TermOps == {"FailNow", "Fatal", "Fatalf"}
SkipOps == {"SkipNow", "Skip", "Skipf"}
ExitOps == TermOps \cup SkipOps \cup {"panic"}

Init ==
    /\ ctxs = <<>>
    /\ stack = <<>>
    /\ phase = "idle"
    /\ panicVal = Nil
    /\ err = NilErr
    /\ frames = <<>>
    /\ calls = <<>>
    /\ lastOp = [op |-> "none", ctx |-> 0, frame |-> 0]
    /\ nops = 0

\* Run, up to the call cb(t)
RunBegin ==
    /\ phase = "idle"
    /\ ctxs' = <<New("test")>>
    /\ stack' = <<1>>
    /\ phase' = "running"
    /\ frames' = <<NewFrame>>
    /\ calls' = <<(<<>>)>>
    /\ lastOp' = [op |-> "Run.begin", ctx |-> 1, frame |-> 1]
    /\ UNCHANGED <<panicVal, err, nops>>

\* One call made by the running callback on the context e: out is what the
\* method did, lines the text its logging calls wrote.
Call(op, e, out, lines) ==
    /\ ctxs' = out.ctxs
    /\ phase' = IF out.panic = Nil THEN "running" ELSE "panicking"
    /\ panicVal' = out.panic
    /\ frames' = IF op \in ExitOps
                  THEN [frames EXCEPT ![Top] =
                           [@ EXCEPT !.how = op, !.on = e, !.val = out.panic,
                                     !.snap = out.ctxs[e].logs,
                                     !.failedAt = out.ctxs[Top].failed]]
                  ELSE IF op \in SoftOps THEN [frames EXCEPT ![e].soft = TRUE]
                  ELSE frames
    /\ calls' = [calls EXCEPT ![e] = @ \o lines]
    /\ lastOp' = [op |-> op, ctx |-> e, frame |-> Top]
    /\ nops' = nops + 1
    /\ UNCHANGED <<stack, err>>

CanCall == phase = "running" /\ nops < MaxOps

DoLog ==
    /\ CanCall
    /\ \E e \in Active, args \in LogArgs :
          Call("Log", e, Returned(Log(ctxs, e, args)), <<Sprintln(args)>>)

DoLogf ==
    /\ CanCall
    /\ \E e \in Active, f \in Formats :
          Call("Logf", e, Returned(Logf(ctxs, e, f.format, f.args)),
               <<Sprintf(f.format, f.args) \o <<NL>> >>)

DoError ==
    /\ CanCall
    /\ \E e \in Active, args \in FailArgs :
          Call("Error", e, Returned(Error(ctxs, e, args)), <<Sprintln(args)>>)

DoErrorf ==
    /\ CanCall
    /\ \E e \in Active, f \in Formats :
          Call("Errorf", e, Returned(Errorf(ctxs, e, f.format, f.args)),
               <<Sprintf(f.format, f.args) \o <<NL>> >>)

DoFail ==
    /\ CanCall
    /\ \E e \in Active : Call("Fail", e, Returned(Fail(ctxs, e)), <<>>)

DoFatal ==
    /\ CanCall
    /\ \E e \in Active, args \in FailArgs :
          Call("Fatal", e, Fatal(ctxs, e, args), <<Sprintln(args)>>)

DoFatalf ==
    /\ CanCall
    /\ \E e \in Active, f \in Formats :
          Call("Fatalf", e, Fatalf(ctxs, e, f.format, f.args),
               <<Sprintf(f.format, f.args) \o <<NL>> >>)

DoFailNow ==
    /\ CanCall
    /\ \E e \in Active : Call("FailNow", e, FailNow(ctxs, e), <<>>)

DoSkip ==
    /\ CanCall
    /\ \E e \in Active, args \in SkipArgs :
          Call("Skip", e, Skip(ctxs, e, args), <<Sprintln(args)>>)

DoSkipf ==
    /\ CanCall
    /\ \E e \in Active, f \in Formats :
          Call("Skipf", e, Skipf(ctxs, e, f.format, f.args),
               <<Sprintf(f.format, f.args) \o <<NL>> >>)

DoSkipNow ==
    /\ CanCall
    /\ \E e \in Active : Call("SkipNow", e, SkipNow(ctxs, e), <<>>)

\* the callback panics by itself, with a marker or with any other value
DoPanic ==
    /\ CanCall
    /\ \E x \in PanicValues :
          Call("panic", Top, [ctxs |-> ctxs, panic |-> x], <<>>)

\* e.Run(name, cb), up to the call cb(sub)
TRunBegin ==
    /\ phase = "running"
    /\ Len(ctxs) < MaxCtx
    /\ \E e \in Active :
          LET sub == Len(ctxs) + 1
          IN  /\ ctxs' = Append(ctxs, [New("sub") EXCEPT !.parent = e])
              /\ stack' = Append(stack, sub)
              /\ frames' = Append(frames, NewFrame)
              /\ calls' = Append(calls, <<>>)
              /\ lastOp' = [op |-> "T.Run.begin", ctx |-> e, frame |-> Top]
    /\ UNCHANGED <<phase, panicVal, err, nops>>

\* the text the boundary of a context writes for the recovered value x
PanicLines(x, withStack) ==
    IF x \in {Nil, testSkipped, testFailed} THEN <<>>
    ELSE <<(<<"PANIC: ">> \o x.text \o <<NL>>)>>
         \o (IF withStack THEN <<Sprintln(<<debugStack>>)>> ELSE <<>>)

\* e.Run from the end of cb(sub), by return or by panic, to its own return
TRunEnd ==
    /\ phase \in {"running", "panicking"}
    /\ Len(stack) > 1
    /\ LET sub == Top
           x == IF phase = "panicking" THEN panicVal ELSE Nil
           out == TRunExit(ctxs, sub, x)
       IN  /\ ctxs' = out.ctxs
           /\ frames' = [frames EXCEPT ![sub] =
                            [@ EXCEPT !.how = IF x = Nil THEN "return" ELSE @,
                                      !.exited = TRUE, !.ret = out.ret]]
           /\ calls' = [calls EXCEPT ![sub] = @ \o PanicLines(x, TRUE)]
           /\ lastOp' = [op |-> "T.Run.end", ctx |-> sub, frame |-> sub]
           /\ phase' = IF out.panic = Nil THEN "running" ELSE "panicking"
           /\ panicVal' = out.panic
    /\ stack' = SubSeq(stack, 1, Len(stack) - 1)
    /\ UNCHANGED <<err, nops>>

\* Run from the end of cb(t) to its return
RunEnd ==
    /\ phase \in {"running", "panicking"}
    /\ Len(stack) = 1
    /\ LET t == Top
           x == IF phase = "panicking" THEN panicVal ELSE Nil
           out == RunExit(ctxs, t, x)
       IN  /\ ctxs' = out.ctxs
           /\ err' = out.err
           /\ frames' = [frames EXCEPT ![t] =
                            [@ EXCEPT !.how = IF x = Nil THEN "return" ELSE @,
                                      !.exited = TRUE, !.ret = out.err.isNil]]
           /\ calls' = [calls EXCEPT ![t] = @ \o PanicLines(x, FALSE)]
           /\ lastOp' = [op |-> "Run.end", ctx |-> t, frame |-> t]
           /\ phase' = IF out.panic = Nil THEN "done" ELSE "crashed"
           /\ panicVal' = out.panic
    /\ stack' = <<>>
    /\ UNCHANGED nops

Next ==
    \/ RunBegin
    \/ DoLog
    \/ DoLogf
    \/ DoError
    \/ DoErrorf
    \/ DoFail
    \/ DoSkip
    \/ DoSkipf
    \/ DoSkipNow
    \/ DoFatal
    \/ DoFatalf
    \/ DoFailNow
    \/ DoPanic
    \/ TRunBegin
    \/ TRunEnd
    \/ RunEnd

Spec == Init /\ [][Next]_vars

----------------------------------------------------------------------------
\* Vocabulary of the properties

Root == 1
Ctxs == 1..Len(ctxs)
Subtests == Ctxs \ {Root}
Markers == {testFailed, testSkipped}
Done == phase = "done"

\* e and every context reached from it through parent
RECURSIVE AncSelf(_, _)
AncSelf(cs, e) ==
    IF cs[e].parent = 0 THEN {e} ELSE {e} \cup AncSelf(cs, cs[e].parent)

RECURSIVE Flatten(_)
Flatten(lines) == IF lines = <<>> THEN <<>> ELSE Head(lines) \o Flatten(Tail(lines))

Header == <<"test failed:", NL>>

TerminateNowMarksAncestors ==
    lastOp.op \in TermOps =>
        /\ phase = "panicking"
        /\ \A a \in AncSelf(ctxs, lastOp.ctx) : ctxs[a].failed

\* C3 (as claimed): whatever way the subtest callback ended, T.Run returned the
\* negation of the child's failed flag.
TRunReturnsNotFailed ==
    \A c \in Subtests : frames[c].exited => (frames[c].ret <=> ~ctxs[c].failed)

\* C3 (amended): T.Run returns true exactly when the callback returned normally
\* and the child is not failed; after any panic of the callback (fatal, skip, a
\* marker, any other value) it returns false.  So a failed child always gives
\* false, and so does a skipped one.
TRunReturnsTrueIffReturnedUnfailed ==
    \A c \in Subtests : frames[c].exited =>
        /\ frames[c].ret <=> (frames[c].how = "return" /\ ~ctxs[c].failed)
        /\ ctxs[c].failed => ~frames[c].ret

\* a subtest that skipped itself: not failed, and T.Run returned false
SkippedSubtestReturnedFalse ==
    \E c \in Subtests :
        /\ frames[c].exited
        /\ frames[c].how \in SkipOps
        /\ frames[c].on = c
        /\ ~ctxs[c].failed
        /\ ~frames[c].ret

\* C4 (as claimed): once T.Run has returned for a failed subtest, its parent and
\* the root are failed, and Run then returns an error.
SubtestFailureReachesRoot ==
    /\ \A c \in Subtests : (frames[c].exited /\ ctxs[c].failed) =>
            \A a \in AncSelf(ctxs, c) : ctxs[a].failed
    /\ Done => ((\E c \in Ctxs : ctxs[c].failed) => ~err.isNil)

\* C5: right after Fail / Error / Errorf on a context, that context and every
\* ancestor are failed and the calling callback is still the one running; the
\* error Run returns for a failed root carries every line logged on the root,
\* those logged after the failure included.
MarkFailedPropagatesAndContinues ==
    /\ lastOp.op \in {"Fail", "Error", "Errorf"} =>
          /\ phase = "running"
          /\ Top = lastOp.frame
          /\ \A a \in AncSelf(ctxs, lastOp.ctx) : ctxs[a].failed
    /\ (Done /\ ctxs[Root].failed) =>
          /\ ~err.isNil
          /\ err.msg = Header \o Flatten(calls[Root])

\* Error("boom") on the root, then Log("after", 42), then Run returned
LoggedAfterSoftFailure ==
    /\ Done
    /\ Len(ctxs) = 1
    /\ frames[Root].how = "return"
    /\ ctxs[Root].failed
    /\ calls[Root] = <<Sprintln(<<StringV("boom")>>),
                       Sprintln(<<StringV("after"), IntV("42")>>)>>
    /\ err.msg = <<"test failed:", NL, "boom", NL, "after", " ", "42", NL>>

\* a step that is a SkipNow / Skip / Skipf call
SkipStep == nops' = nops + 1 /\ lastOp'.op \in SkipOps

NothingRunsAfterExit ==
    /\ \A c \in Ctxs : frames[c].how \in TermOps \cup SkipOps =>
          /\ ~(phase = "running" /\ Top = c)
          /\ lastOp.frame = c /\ lastOp.op \notin {"T.Run.end", "Run.end"} =>
                lastOp.op = frames[c].how /\ phase = "panicking"
    /\ (Done /\ frames[Root].how \in TermOps \cup SkipOps) =>
          /\ ctxs[Root].logs = frames[Root].snap
          /\ ~err.isNil => err.msg = Header \o frames[Root].snap

\* Log, then Fatal on the root: Run's error holds both lines and ends there
FatalCutTheLog ==
    /\ Done
    /\ frames[Root].how = "Fatal"
    /\ nops = MaxOps
    /\ Len(calls[Root]) = 2
    /\ err.msg = Header \o Flatten(calls[Root])

\* C8: the log of every context is the text of the logging calls made on it,
\* in call order, each call one line ending in its only newline.
LogsAreTheCallsInOrder ==
    \A c \in Ctxs :
        /\ ctxs[c].logs = Flatten(calls[c])
        /\ \A i \in 1..Len(calls[c]) :
              LET line == calls[c][i]
              IN  /\ line # <<>>
                  /\ line[Len(line)] = NL
                  /\ \A j \in 1..(Len(line) - 1) : line[j] # NL

\* two different lines logged on one context
TwoLinesLogged ==
    \E c \in Ctxs :
        /\ Len(calls[c]) >= 2
        /\ calls[c][1] # calls[c][2]
        /\ ctxs[c].logs = calls[c][1] \o calls[c][2]

\* C9: a root callback that panicked with a value that is no marker leaves the
\* root failed, its log extended by the line "PANIC: <value>", and Run returns
\* an error whose text ends with that line.
UnexpectedPanicFailsRun ==
    (Done /\ frames[Root].how = "panic" /\ frames[Root].val \notin Markers) =>
        LET line == <<"PANIC: ">> \o frames[Root].val.text \o <<NL>>
        IN  /\ ctxs[Root].failed
            /\ ctxs[Root].logs = frames[Root].snap \o line
            /\ ~err.isNil
            /\ err.msg = Header \o frames[Root].snap \o line
            /\ panicVal = Nil

\* Log, then panic("oops") on a root that had not failed
PanickedAfterLogging ==
    /\ Done
    /\ frames[Root].how = "panic"
    /\ frames[Root].val = StringV("oops")
    /\ ~frames[Root].failedAt
    /\ frames[Root].snap # <<>>

\* C10: a root callback that panicked with testFailed{} or testSkipped{}
\* itself, the root not being failed then, leaves the root not failed and its
\* log as it was, and Run returns nil.
BareMarkerIsAbsorbed ==
    (Done /\ frames[Root].how = "panic" /\ frames[Root].val \in Markers
          /\ ~frames[Root].failedAt) =>
        /\ ~ctxs[Root].failed
        /\ ctxs[Root].logs = frames[Root].snap
        /\ err.isNil
        /\ panicVal = Nil

\* panic(testFailed{}) by a root callback that had logged
BareFailureMarkerAbsorbed ==
    /\ Done
    /\ frames[Root].how = "panic"
    /\ frames[Root].val = testFailed
    /\ ~frames[Root].failedAt
    /\ frames[Root].snap # <<>>
    /\ err.isNil

\* C11: T.Run hands nothing on.  Right after a T.Run has ended, however its
\* callback ended, no panic is travelling, the subtest is over and off the
\* stack, and the callback now running is one that was waiting in a T.Run: it
\* has made no call that ends it.  At every moment a context is on the stack
\* exactly while its callback has not ended, the root at the bottom, a
\* subtest always above the contexts made before it.
SubtestExitStopsAtBoundary ==
    /\ lastOp.op = "T.Run.end" =>
          /\ phase = "running"
          /\ panicVal = Nil
          /\ frames[lastOp.ctx].exited
          /\ lastOp.ctx \notin Active
          /\ frames[Top].how = "running"
    /\ \A c \in Ctxs : frames[c].exited <=> c \notin Active
    /\ \A i \in 1..Len(stack) : \A j \in 1..Len(stack) : i < j => stack[i] < stack[j]
    /\ stack # <<>> => stack[1] = Root

\* the callback that ran a subtest logs after that subtest ended by an
\* unexpected panic
ParentWentOnAfterSubtestPanic ==
    /\ lastOp.op = "Log"
    /\ phase = "running"
    /\ \E c \in Subtests :
          /\ frames[c].exited
          /\ frames[c].how = "panic"
          /\ frames[c].val \notin Markers
          /\ ctxs[c].parent = lastOp.frame
          /\ lastOp.ctx = lastOp.frame

\* a step that is a SkipNow / Skip / Skipf call on a subtest
SubtestSkipStep == SkipStep /\ ctxs[lastOp'.ctx].parent # 0

\* a step in which a T.Run takes the skip marker
SkipAbsorbedStep ==
    /\ lastOp'.op = "T.Run.end"
    /\ phase = "panicking"
    /\ panicVal = testSkipped

\* C12: a skip on a subtest sets that subtest's skipped flag and leaves every
\* other flag of every context as it was, its ancestors' failed and skipped
\* included; the T.Run that takes the skip marker changes no flag at all; and
\* when Run returns with no context failed, skipped subtests or not, it
\* returns nil.
SubtestSkipLeavesAncestorsAlone ==
    /\ [][SubtestSkipStep =>
            /\ ctxs'[lastOp'.ctx].skipped
            /\ ctxs'[lastOp'.ctx].failed = ctxs[lastOp'.ctx].failed
            /\ \A a \in Ctxs \ {lastOp'.ctx} :
                  /\ ctxs'[a].skipped = ctxs[a].skipped
                  /\ ctxs'[a].failed = ctxs[a].failed]_vars
    /\ [][SkipAbsorbedStep =>
            \A c \in Ctxs :
                  /\ ctxs'[c].skipped = ctxs[c].skipped
                  /\ ctxs'[c].failed = ctxs[c].failed]_vars
    /\ []((Done /\ \A c \in Ctxs : ~ctxs[c].failed) => err.isNil)

\* Run returned nil after a subtest of a subtest skipped itself: the skipped
\* flag is on that context alone
OnlyTheGrandchildSkipped ==
    /\ Done
    /\ err.isNil
    /\ \E c \in Subtests :
          /\ ctxs[c].parent # Root
          /\ frames[c].how \in SkipOps
          /\ frames[c].on = c
          /\ ctxs[c].skipped
          /\ \A a \in Ctxs \ {c} : ~ctxs[a].skipped /\ ~ctxs[a].failed

\* C13: a step writes to the log of one context at most, the one the call was
\* made on (for the record of an unexpected panic: the context of the T.Run or
\* Run that recovered it); the log of every other context stays as it was, and
\* a new context starts with an empty log.  So the text of Run's error is the
\* header and the lines logged on the root, nothing else.
LogsAreNotShared ==
    /\ [][/\ \A c \in Ctxs : c # lastOp'.ctx => ctxs'[c].logs = ctxs[c].logs
          /\ \A c \in (1..Len(ctxs')) \ Ctxs : ctxs'[c].logs = <<>>]_vars
    /\ []((Done /\ ~err.isNil) => err.msg = Header \o Flatten(calls[Root]))

\* Run returned an error with no text of its own, though a subtest logged and
\* its T.Run recorded an unexpected panic in the subtest's log
SubtestTextStayedInSubtest ==
    /\ Done
    /\ ~err.isNil
    /\ err.msg = Header
    /\ \E c \in Subtests :
          /\ frames[c].how = "panic"
          /\ frames[c].val \notin Markers
          /\ Len(calls[c]) = 3
          /\ ctxs[c].logs = Flatten(calls[c])

\* C14: no step takes a flag back: a context that is failed stays failed and
\* a context that is skipped stays skipped, whatever is called next and on
\* whatever context.
FlagsNeverReset ==
    [][\A c \in Ctxs :
          /\ ctxs[c].failed => ctxs'[c].failed
          /\ ctxs[c].skipped => ctxs'[c].skipped]_vars

\* a context failed and skipped, after both a markFailed and a skip on it,
\* once its T.Run has ended
FailedThenSkippedKeptBoth ==
    \E c \in Subtests :
        /\ frames[c].exited
        /\ frames[c].soft
        /\ frames[c].how \in SkipOps
        /\ ctxs[c].failed
        /\ ctxs[c].skipped

NoPanicLeavesRun ==
    /\ phase # "crashed"
    /\ phase \in {"running", "panicking"} => (stack # <<>> /\ stack[1] = Root)
    /\ phase \in {"idle", "done", "crashed"} => stack = <<>>
    /\ Done =>
          /\ stack = <<>>
          /\ panicVal = Nil
          /\ \A c \in Ctxs : frames[c].exited
          /\ err.isNil \/ SubSeq(err.msg, 1, Len(Header)) = Header

\* Run returned an error after a subtest of a subtest panicked with a value
\* that is no marker
DeepPanicEndedInAnError ==
    /\ Done
    /\ ~err.isNil
    /\ \E c \in Subtests :
          /\ ctxs[c].parent \in Subtests
          /\ frames[c].how = "panic"
          /\ frames[c].val \notin Markers

\* C17: the context T.Run has just made is not failed, not skipped, has an
\* empty log and has the receiver as parent, whatever the receiver's flags;
\* a step sets failed only on the context it was called on and on contexts up
\* its parent chain, never on a sibling or a descendant; and the T.Run of a
\* subtest that returned without being failed returned true, failed parent or
\* not.
FailureFlowsOnlyUpward ==
    /\ [](lastOp.op = "T.Run.begin" =>
            /\ ~ctxs[Len(ctxs)].failed
            /\ ~ctxs[Len(ctxs)].skipped
            /\ ctxs[Len(ctxs)].logs = <<>>
            /\ ctxs[Len(ctxs)].parent = lastOp.ctx)
    /\ [][\A c \in Ctxs :
            (ctxs'[c].failed /\ ~ctxs[c].failed) => c \in AncSelf(ctxs, lastOp'.ctx)]_vars
    /\ [](\A c \in Subtests :
            (frames[c].exited /\ frames[c].how = "return" /\ ~ctxs[c].failed)
                => frames[c].ret)

\* the second subtest of a parent passed after the first one had failed the
\* parent
SiblingPassedUnderFailedParent ==
    \E c, d \in Subtests :
        /\ c < d
        /\ ctxs[c].parent = ctxs[d].parent
        /\ frames[c].soft
        /\ ctxs[c].failed
        /\ ctxs[ctxs[d].parent].failed
        /\ frames[d].exited
        /\ ~ctxs[d].failed
        /\ frames[d].ret

\* C18: a context on which Fail / Error / Errorf was called and which is
\* skipped is failed as well, so is every ancestor of it, and Run, once it has
\* returned, has returned an error.
SkipDoesNotMaskFailure ==
    \A c \in Ctxs : (frames[c].soft /\ ctxs[c].skipped) =>
        /\ ctxs[c].failed
        /\ \A a \in AncSelf(ctxs, c) : ctxs[a].failed
        /\ Done => ~err.isNil

\* Error, then Skip by a subtest on itself; Run returned an error
FailedThenSkippedSubtestFailedRun ==
    /\ Done
    /\ ~err.isNil
    /\ \E c \in Subtests :
          /\ frames[c].soft
          /\ frames[c].how \in SkipOps
          /\ frames[c].on = c
          /\ frames[c].failedAt
          /\ ctxs[c].failed /\ ctxs[c].skipped
          /\ ctxs[Root].failed /\ ~ctxs[Root].skipped

\* the callback of c ended by FailNow / Fatal / Fatalf / SkipNow / Skip / Skipf
\* called on another context
EndedOnAnother(c) == frames[c].how \in TermOps \cup SkipOps /\ frames[c].on # c

\* C19: when a subtest callback ends by a fatal or a skip called on another
\* context (one of an enclosing callback), the flag is on that context; until
\* the subtest's own T.Run takes the marker the subtest is the innermost
\* frame; that T.Run returns false and leaves the subtest's failed flag as it
\* was; and right after it a callback that was waiting is running again, the
\* callback of the other context still not ended.
SignalStopsAtInnermostBoundary ==
    \A c \in Subtests : EndedOnAnother(c) =>
        /\ frames[c].how \in TermOps => ctxs[frames[c].on].failed
        /\ frames[c].how \in SkipOps => ctxs[frames[c].on].skipped
        /\ ~frames[c].exited => phase = "panicking" /\ Top = c
        /\ frames[c].exited =>
              /\ ~frames[c].ret
              /\ ctxs[c].failed = frames[c].failedAt
        /\ (lastOp.op = "T.Run.end" /\ lastOp.ctx = c) =>
              /\ phase = "running"
              /\ frames[Top].how = "running"
              /\ frames[c].on \in Active
              /\ ~frames[frames[c].on].exited

\* a subtest called Fatal on its parent; its T.Run returned false, the subtest
\* is not failed, and the parent's callback has logged since
AncestorWentOnAfterFatalFromChild ==
    /\ lastOp.op = "Log"
    /\ phase = "running"
    /\ \E c \in Subtests :
          /\ EndedOnAnother(c)
          /\ frames[c].how = "Fatal"
          /\ frames[c].on = ctxs[c].parent
          /\ frames[c].exited
          /\ ~frames[c].ret
          /\ ~ctxs[c].failed
          /\ ctxs[frames[c].on].failed
          /\ lastOp.frame = frames[c].on

====
